---------------------------- MODULE Spec2Model ----------------------------
(***************************************************************************)
(* Model of the gait pipeline of PfyMU/gait/gait.py (class Gait).          *)
(*                                                                         *)
(* Three components are modelled, each as the state machine of its code:   *)
(*   - Gait._get_gait_bouts  (the bout segmenter),       SpecBouts         *)
(*   - the stride builder of Gait._predict (l.266-301),  SpecStride        *)
(*   - the control flow of Gait._predict,                SpecPredict       *)
(*                                                                         *)
(* Times are integers (ticks): a sample index times dt is a tick count,    *)
(* thresholds are tick counts.  Python indices are 0-based; a numpy array  *)
(* a is held as a TLA+ sequence s with a[i] = s[i+1].                      *)
(***************************************************************************)
EXTENDS Integers, Sequences, FiniteSets, TLC

VARIABLES
    \* ---- Gait._get_gait_bouts
    classification,   \* the boolean labels of one day
    dt,               \* sampling period
    min_bout,         \* self.min_bout
    max_bout_sep,     \* self.max_bout_sep
    starts, stops,    \* the edge arrays
    bouts,            \* the list being built, returned at pc = "done"
    nb, ncb,          \* the merge loop's counters
    pc,               \* position in the function
    err,              \* the exception raised ("" when none)
    \* ---- Gait._predict: the stride builder of one bout
    ic, fc,           \* the bout's IC and FC events, absolute sample indices
    bstart,           \* absolute index of the bout's first sample
    max_stride_time,  \* self.max_stride_time
    loading_factor,   \* self.loading_factor, in tenths
    i_ic,             \* the index i of the for loop over ic_times
    sib,              \* steps in bout
    ibout,            \* index of the bout within its day
    serr,             \* exception raised in the bout's processing, "" if none
    ig,               \* running offset into the accumulators
    gait,             \* the result table: key -> list
    spc,              \* position in the bout's processing
    \* ---- Gait._predict: control flow
    gait_class,       \* the classifier's labels for the whole recording
    height,           \* the height argument, or None
    leg_length_flag,  \* self.leg_length
    leg_length,       \* the local leg_length, in 1/100 of height's unit
    days,             \* the day windows
    iday,             \* index of the day loop
    warned,           \* whether warn(...) of line 162 was called
    ppc,              \* position in _predict
    perr,             \* the exception _predict raised ("" when none)
    \* ---- Gait._predict: the metrics of the table, lines 348-404
    mpc,              \* position in the metrics code
    merr,             \* the exception raised there ("" when none)
    igrp,             \* index of the (day, bout) group of the asymmetry loop
    view,             \* key -> the array gait[key][mask], a copy, as last written
    \* ---- Gait._predict: the baseline wavelet scale, line 189
    fs,               \* sampling frequency in Hz, dt = 1/fs
    scale_original,   \* the local scale_original, None before line 189
    \* ---- Sit2Stand: the trim of the power signal
    power_std_trim,   \* the argument power_std_trim, in ticks
    std_height,       \* self.std_height
    std_trim,         \* self.std_trim, None before __init__
    power_len,        \* power.size
    std_window,       \* the slice of power given to std, None before line 244
    tpc,              \* position in Sit2Stand
    \* ---- features.Bank
    feat_list,        \* self._feat_list
    arg,              \* the argument features of the add call in progress
    warns,            \* number of warnings emitted
    berr,             \* exception raised by the last add call ("" when none)
    bpc               \* position in Bank

segVars == <<classification, min_bout, max_bout_sep, starts, stops,
             bouts, nb, ncb, pc, err>>

strVars == <<ic, fc, bstart, max_stride_time, loading_factor, i_ic, sib,
             ibout, serr, spc>>

preVars == <<gait_class, height, leg_length_flag, leg_length, days, iday,
             warned, ppc, perr>>

metVars == <<mpc, merr, igrp, view>>

sclVars == <<fs, scale_original>>

s2sVars == <<power_std_trim, std_height, std_trim, power_len, std_window, tpc>>

bnkVars == <<feat_list, arg, warns, berr, bpc>>

othVars == <<sclVars, s2sVars, bnkVars>>

vars == <<segVars, strVars, preVars, metVars, othVars, dt, ig, gait>>

-----------------------------------------------------------------------------
(* Bounds of the model *)

MaxLen == 6
MaxThresh == 3

DtSet == {1, 2}

-----------------------------------------------------------------------------
(* numpy helpers *)

AsInt(b) == IF b THEN 1 ELSE 0

\* a[i] of a numpy array held as a sequence
At(a, i) == a[i + 1]

Size(a) == Len(a)

RECURSIVE SortedSeq(_)
SortedSeq(S) ==
    IF S = {} THEN <<>>
    ELSE LET m == CHOOSE x \in S : \A y \in S : x <= y
         IN  <<m>> \o SortedSeq(S \ {m})

\* where(diff(c.astype(int)) == v)[0]
WhereDiff(c, v) ==
    SortedSeq({i \in 0..(Len(c) - 2) : AsInt(At(c, i + 1)) - AsInt(At(c, i)) = v})

\* lines 428, 431-432
StartsOf_NoImplicit(c) == WhereDiff(c, 1)
StartsOf(c) ==
    LET s == WhereDiff(c, 1)
    IN  IF At(c, 0) THEN <<0>> \o s ELSE s

\* lines 429, 433-434
StopsOf(c) ==
    LET s == WhereDiff(c, -1)
    IN  IF At(c, Len(c) - 1) THEN Append(s, Len(c) - 1) ELSE s

-----------------------------------------------------------------------------
(* The labels of the test fixture get_bgait_samples_truth *)

FixtureLen == 1000

FixtureRuns == {<<0, 90>>, <<150, 160>>, <<165, 180>>, <<200, 210>>,
                <<225, 240>>, <<400, 760>>, <<770, 780>>, <<990, 1000>>}

bgait == [i \in 1..FixtureLen |->
             \E r \in FixtureRuns : r[1] <= i - 1 /\ i - 1 < r[2]]

\* cases 1..4 of the fixture, in milliseconds: dt, n_max_sep*dt, n_min_time*dt
FixtureCase(k) ==
    CASE k = 1 -> [c |-> bgait, dt |-> 20, sep |-> 25 * 20, minb |-> 75 * 20]
      [] k = 2 -> [c |-> bgait, dt |-> 10, sep |-> 50 * 10, minb |-> 200 * 10]
      [] k = 3 -> [c |-> bgait, dt |-> 20, sep |-> 75 * 20, minb |-> 5 * 20]
      [] OTHER -> [c |-> bgait, dt |-> 20, sep |-> 6 * 20, minb |-> 5 * 20]

FixtureTruth(k) ==
    CASE k = 1 -> << <<0, 90>>, <<150, 240>>, <<400, 780>> >>
      [] k = 2 -> << <<400, 780>> >>
      [] k = 3 -> << <<0, 240>>, <<400, 780>>, <<990, 1000>> >>
      [] OTHER -> << <<0, 90>>, <<150, 180>>, <<200, 210>>, <<225, 240>>,
                     <<400, 760>>, <<770, 780>>, <<990, 1000>> >>

FixtureCases == {FixtureCase(k) : k \in 1..4}

SmallLabels == UNION {[1..n -> BOOLEAN] : n \in 1..MaxLen}

SmallCases ==
    [c : SmallLabels, dt : DtSet, sep : 0..MaxThresh, minb : 0..MaxThresh]

-----------------------------------------------------------------------------
(* A component that a specification does not run stays in these states *)

\* An optional argument or local is None or <<its value>>
None == <<>>
Some(x) == <<x>>
ValueOf(o) == o[1]

\* None as an entry of the result table
NoneEntry == "None"

SegIdle ==
    /\ classification = <<>>
    /\ min_bout = 0
    /\ max_bout_sep = 0
    /\ starts = <<>>
    /\ stops = <<>>
    /\ bouts = <<>>
    /\ nb = 0
    /\ ncb = 0
    /\ pc = "idle"
    /\ err = ""

StrideIdle ==
    /\ ic = <<>>
    /\ fc = <<>>
    /\ bstart = 0
    /\ max_stride_time = 0
    /\ loading_factor = 0
    /\ i_ic = 0
    /\ sib = 0
    /\ ibout = 0
    /\ serr = ""
    /\ spc = "idle"

PredictIdle ==
    /\ gait_class = <<>>
    /\ height = None
    /\ leg_length_flag = FALSE
    /\ leg_length = None
    /\ days = <<>>
    /\ iday = 0
    /\ warned = FALSE
    /\ ppc = "idle"
    /\ perr = ""

MetricsIdle ==
    /\ mpc = "idle"
    /\ merr = ""
    /\ igrp = 0
    /\ view = <<>>

ScaleIdle ==
    /\ fs = 0
    /\ scale_original = None

Sit2StandIdle ==
    /\ power_std_trim = 0
    /\ std_height = FALSE
    /\ std_trim = None
    /\ power_len = 0
    /\ std_window = None
    /\ tpc = "idle"

BankIdle ==
    /\ feat_list = <<>>
    /\ arg = <<>>
    /\ warns = 0
    /\ berr = ""
    /\ bpc = "idle"

\* the components outside the gait table
OtherIdle == ScaleIdle /\ Sit2StandIdle /\ BankIdle

\* the components of the gait table
GaitIdle ==
    /\ SegIdle
    /\ StrideIdle
    /\ PredictIdle
    /\ MetricsIdle
    /\ ig = 0
    /\ gait = <<>>

gaitVars == <<segVars, strVars, preVars, metVars, ig, gait>>

-----------------------------------------------------------------------------
(* Gait._get_gait_bouts *)

\* line 443: the inner loop's condition, once its index is in range
GapBelow(k) == ((At(starts, k + 1) - At(stops, k)) * dt) < max_bout_sep

\* line 446
KeepBout_NoStrict(s, e) == ((e - s) * dt) >= min_bout
KeepBout(s, e) == ((e - s) * dt) > min_bout

\* line 449
NextNb_Plus1(n, m) == n + 1
NextNb(n, m) == n + m + 1

SegInit ==
    /\ \E in \in SmallCases \cup FixtureCases :
          /\ classification = in.c
          /\ dt = in.dt
          /\ min_bout = in.minb
          /\ max_bout_sep = in.sep
    /\ starts = <<>>
    /\ stops = <<>>
    /\ bouts = <<>>
    /\ nb = 0
    /\ ncb = 0
    /\ pc = "edges"
    /\ err = ""
    /\ StrideIdle
    /\ PredictIdle
    /\ MetricsIdle
    /\ ig = 0
    /\ gait = <<>>
    /\ OtherIdle

\* lines 428-440: the edges, the implicit boundaries, the integrity check
FindEdges ==
    /\ pc = "edges"
    /\ starts' = StartsOf(classification)
    /\ stops' = StopsOf(classification)
    /\ IF Size(starts') # Size(stops')
       THEN /\ pc' = "raised"
            /\ err' = "ValueError"
       ELSE /\ pc' = "outer"
            /\ err' = err
    /\ UNCHANGED <<classification, dt, min_bout, max_bout_sep, bouts, nb, ncb>>
    /\ UNCHANGED <<strVars, preVars, metVars, othVars, ig, gait>>

\* lines 441-442 and 451: the outer loop's test
OuterLoop ==
    /\ pc = "outer"
    /\ IF nb < Size(starts)
       THEN /\ ncb' = 0
            /\ pc' = "inner"
       ELSE /\ ncb' = ncb
            /\ pc' = "done"
    /\ UNCHANGED <<classification, dt, min_bout, max_bout_sep, starts, stops,
                   bouts, nb, err>>
    /\ UNCHANGED <<strVars, preVars, metVars, othVars, ig, gait>>

\* lines 443-444: one evaluation of the inner loop's condition.  starts[k]
\* with k >= starts.size raises IndexError
InnerLoop ==
    /\ pc = "inner"
    /\ IF nb + ncb + 1 >= Size(starts)
       THEN /\ pc' = "raised"
            /\ err' = "IndexError"
            /\ ncb' = ncb
       ELSE /\ err' = err
            /\ IF GapBelow(nb + ncb)
               THEN /\ ncb' = ncb + 1
                    /\ pc' = "inner"
               ELSE /\ ncb' = ncb
                    /\ pc' = "filter"
    /\ UNCHANGED <<classification, dt, min_bout, max_bout_sep, starts, stops,
                   bouts, nb>>
    /\ UNCHANGED <<strVars, preVars, metVars, othVars, ig, gait>>

\* lines 446-449
FilterBout ==
    /\ pc = "filter"
    /\ bouts' = IF KeepBout(At(starts, nb), At(stops, nb + ncb))
                THEN Append(bouts, <<At(starts, nb), At(stops, nb + ncb)>>)
                ELSE bouts
    /\ nb' = NextNb(nb, ncb)
    /\ pc' = "outer"
    /\ UNCHANGED <<classification, dt, min_bout, max_bout_sep, starts, stops,
                   ncb, err>>
    /\ UNCHANGED <<strVars, preVars, metVars, othVars, ig, gait>>

SegNext == FindEdges \/ OuterLoop \/ InnerLoop \/ FilterBout

SpecBouts == SegInit /\ [][SegNext]_vars

-----------------------------------------------------------------------------
(* Claims about Gait._get_gait_bouts *)

\* the call has ended: it returned bouts, or it raised err
SegEnded == pc \in {"done", "raised"}

\* the raw runs of true labels, as the code's edge arrays give them
RawStarts == StartsOf(classification)
RawStops == StopsOf(classification)
NRuns == Len(RawStarts)

\* the gap between raw runs k and k+1 is below the separation threshold
SmallGap(k) == ((At(RawStarts, k + 1) - At(RawStops, k)) * dt) < max_bout_sep

\* first and last run of the chain of small gaps that run k belongs to
ChainHead(k) ==
    CHOOSE h \in 0..k :
        /\ \A j \in h..(k - 1) : SmallGap(j)
        /\ (h = 0 \/ ~SmallGap(h - 1))
ChainLast(k) ==
    CHOOSE m \in k..(NRuns - 1) :
        /\ \A j \in k..(m - 1) : SmallGap(j)
        /\ (m = NRuns - 1 \/ ~SmallGap(m))

\* bout b spans raw run k
Spans(b, k) == b[1] <= At(RawStarts, k) /\ At(RawStops, k) <= b[2]

BoutSet == {bouts[i] : i \in 1..Len(bouts)}

\* C1: every (start, stop) pair of the list that _get_gait_bouts builds and
\* returns satisfies stop > start and (stop - start) * dt >= min_bout_time.
C1_BoutsLongEnough ==
    \A i \in 1..Len(bouts) :
        /\ bouts[i][2] > bouts[i][1]
        /\ (bouts[i][2] - bouts[i][1]) * dt >= min_bout

\* C1 witness: the duration filter has let a bout into the list.
C1_Witness == pc = "outer" /\ Len(bouts) >= 1

\* C2 (as claimed): when the call ends, two consecutive raw runs whose gap is
\* below max_bout_separation_time have been placed in one returned bout (if
\* their chain passes the duration filter), runs whose gap is not below it are
\* in no common bout, and distinct returned bouts are at least
\* max_bout_separation_time apart.
C2_Claim ==
    SegEnded =>
        /\ \A k \in 0..(NRuns - 2) :
              IF SmallGap(k)
              THEN KeepBout(At(RawStarts, ChainHead(k)), At(RawStops, ChainLast(k)))
                      => /\ pc = "done"
                         /\ \E b \in BoutSet : Spans(b, k) /\ Spans(b, k + 1)
              ELSE \A b \in BoutSet : ~(Spans(b, k) /\ Spans(b, k + 1))
        /\ \A i, j \in 1..Len(bouts) :
              i < j => (bouts[j][1] - bouts[i][2]) * dt >= max_bout_sep

\* C3 (as claimed): on the labels of the test fixture the call returns exactly
\* the fixture's expected bouts, for each of its four cases.
C3_Claim ==
    \A k \in 1..4 :
        (/\ SegEnded
         /\ classification = FixtureCase(k).c
         /\ dt = FixtureCase(k).dt
         /\ max_bout_sep = FixtureCase(k).sep
         /\ min_bout = FixtureCase(k).minb)
            => (pc = "done" /\ bouts = FixtureTruth(k))

\* C4: the bouts of the list that _get_gait_bouts builds and returns are
\* time-ordered and pairwise non-overlapping: for consecutive bouts (s1, e1),
\* (s2, e2), e1 <= s2 and s1 < s2.
C4_BoutsOrdered ==
    \A i \in 1..(Len(bouts) - 1) :
        /\ bouts[i][2] <= bouts[i + 1][1]
        /\ bouts[i][1] < bouts[i + 1][1]

\* C4 witness: two bouts are in the list.
C4_Witness == pc = "outer" /\ Len(bouts) >= 2

\* C5 (as claimed): labels that are true for their entire length N, with
\* (N-1)*dt exceeding min_bout_time, produce exactly one bout, (0, N-1).
C5_Claim ==
    (/\ SegEnded
     /\ \A i \in 1..Len(classification) : classification[i]
     /\ (Len(classification) - 1) * dt > min_bout)
        => (pc = "done" /\ bouts = << <<0, Len(classification) - 1>> >>)

\* C28: for every non-empty array of labels, the number of starts (rising
\* edges plus the implicit start of a true first label) equals the number of
\* stops (falling edges plus the implicit stop of a true last label), and the
\* error 'Starts and stops of bouts do not match' is never raised.
C28_StartsMatchStops ==
    /\ err # "ValueError"
    /\ pc # "edges" => Size(starts) = Size(stops)

\* C28 witness: the edges are found for labels whose first and last label are
\* true and that hold two runs or more.
C28_Witness ==
    /\ pc = "outer"
    /\ At(classification, 0)
    /\ At(classification, Len(classification) - 1)
    /\ Size(starts) >= 2

\* C29 (as claimed): the merge loop never reads starts or stops past their
\* end: the call does not raise IndexError.
C29_Claim == err # "IndexError"

-----------------------------------------------------------------------------
(* Gait._predict, lines 262-301: the stride builder of one bout.           *)
(* loading_factor is held in tenths, so the two forward times are held     *)
(* times ten: t < curr_ic + f  is  10*t < 10*curr_ic + 10*f.               *)

MaxIdx == 6
MaxIc == 3
MaxFc == 4

\* max_stride_time, loading_factor (tenths) and dt of the runs
StrideParams ==
    {[mst |-> 4, lf |-> 5, dt |-> 1],
     [mst |-> 24, lf |-> 2, dt |-> 2]}

\* first sample of the bout (start + bout[0], line 216)
BStartSet == {0, 2}

\* find_peaks returns strictly increasing indices into the bout's signal
PeakLists(n) ==
    {SortedSeq(S) : S \in {T \in SUBSET (0..MaxIdx) : Cardinality(T) <= n}}

\* lines 263-264: ic += bstart, fc += bstart
AddScalar(a, b) == [k \in 1..Len(a) |-> a[k] + b]

\* the lists of the result table, lines 191-196 and 203-204
GaitLists ==
    {"Day N", "Bout N", "Bout Start", "Bout Duration", "Bout Steps",
     "IC", "FC", "FC opp foot", "b valid cycle", "delta h",
     "PARAM:step regularity - V", "PARAM:stride regularity - V"}

\* Gait.params as keys, lines 21-36 and 198-199
ParamKeys ==
    {"PARAM:stride time", "PARAM:stance time", "PARAM:swing time",
     "PARAM:step time", "PARAM:initial double support",
     "PARAM:terminal double support", "PARAM:double support",
     "PARAM:single support", "PARAM:step length", "PARAM:stride length",
     "PARAM:gait speed", "PARAM:cadence", "PARAM:step regularity - V",
     "PARAM:stride regularity - V"}

\* Gait.asym_params as keys, lines 39-43 and 200-201
AsymKeys ==
    {"PARAM:stride time asymmetry", "PARAM:stance time asymmetry",
     "PARAM:swing time asymmetry", "PARAM:step time asymmetry",
     "PARAM:initial double support asymmetry",
     "PARAM:terminal double support asymmetry",
     "PARAM:double support asymmetry", "PARAM:single support asymmetry",
     "PARAM:step length asymmetry", "PARAM:stride length asymmetry"}

\* lines 191-204: the table as allocated before the day loop
GaitAlloc ==
    [k \in GaitLists \cup ParamKeys \cup AsymKeys |->
        IF k \in GaitLists THEN <<>> ELSE NoneEntry]

\* line 268, times ten
LoadingForwardTime == loading_factor * max_stride_time

\* line 269, times ten
StanceForwardTime_FullStride == 10 * max_stride_time + LoadingForwardTime
StanceForwardTime == 5 * max_stride_time + LoadingForwardTime

\* lines 277-278: fc[fc_times > curr_ic], curr_ic a time
FcForward(curr_ic) == SelectSeq(fc, LAMBDA f : f * dt > curr_ic)

\* (fc_forward_times < (curr_ic + forward)).sum(), forward held times ten
CountBefore(fc_forward, curr_ic, forward) ==
    Cardinality({k \in 1..Len(fc_forward) :
                    10 * (fc_forward[k] * dt) < 10 * curr_ic + forward})

\* line 282: the IC passes optimization 1
PassLoading_AtLeastOne(curr_ic) ==
    CountBefore(FcForward(curr_ic), curr_ic, LoadingForwardTime) >= 1
PassLoading(curr_ic) ==
    CountBefore(FcForward(curr_ic), curr_ic, LoadingForwardTime) = 1

\* line 286: the IC passes optimization 2
PassStance(curr_ic) ==
    ~(CountBefore(FcForward(curr_ic), curr_ic, StanceForwardTime) < 2)

\* lines 295-301: the flags added for a bout of n = sib strides
ValidCycleFlags(IC, g, n) ==
    (IF n > 2
     THEN [k \in 1..(n - 2) |->
              ((At(IC, g + (k - 1) + 2) - At(IC, g + (k - 1))) * dt) < max_stride_time]
     ELSE <<>>)
    \o (IF n > 0 THEN [k \in 1..n |-> FALSE] ELSE <<>>)

StrideInit ==
    /\ \E p \in StrideParams, b \in BStartSet,
          pic \in PeakLists(MaxIc), pfc \in PeakLists(MaxFc) :
          /\ max_stride_time = p.mst
          /\ loading_factor = p.lf
          /\ dt = p.dt
          /\ bstart = b
          /\ ic = AddScalar(pic, b)
          /\ fc = AddScalar(pfc, b)
    /\ i_ic = 0
    /\ sib = 0
    /\ ibout = 0
    /\ serr = ""
    /\ ig = 0
    /\ gait = GaitAlloc
    /\ spc = "ic_loop"
    /\ SegIdle
    /\ PredictIdle
    /\ MetricsIdle
    /\ OtherIdle

\* lines 276-293: one iteration of the loop over ic_times
StrideIter ==
    /\ spc = "ic_loop"
    /\ i_ic < Size(ic)
    /\ LET curr_ic == At(ic, i_ic) * dt
           fc_forward == FcForward(curr_ic)
       IN  IF ~PassLoading(curr_ic) \/ ~PassStance(curr_ic)
           THEN UNCHANGED <<gait, sib>>
           ELSE /\ gait' = [gait EXCEPT
                              !["IC"] = Append(@, At(ic, i_ic)),
                              !["FC"] = Append(@, At(fc_forward, 1)),
                              !["FC opp foot"] = Append(@, At(fc_forward, 0))]
                /\ sib' = sib + 1
    /\ i_ic' = i_ic + 1
    /\ UNCHANGED <<ic, fc, bstart, max_stride_time, loading_factor, ibout, serr,
                   spc, dt, ig>>
    /\ UNCHANGED <<segVars, preVars, metVars, othVars>>

\* lines 295-301, after the loop over ic_times has ended
ValidCycle ==
    /\ spc = "ic_loop"
    /\ i_ic = Size(ic)
    /\ gait' = [gait EXCEPT
                  !["b valid cycle"] = @ \o ValidCycleFlags(gait["IC"], ig, sib)]
    /\ spc' = "metrics"
    /\ UNCHANGED <<ic, fc, bstart, max_stride_time, loading_factor, i_ic, sib,
                   ibout, serr, dt, ig>>
    /\ UNCHANGED <<segVars, preVars, metVars, othVars>>

\* the number of samples of the bout's signals (vert_acc.size, line 325):
\* the peaks are indices into them
BoutSize == MaxIdx + 1

\* numpy's nan, as an entry of 'delta h'
nan == <<>>

\* lines 313-315: the change in height over vert_pos[i1:i2], held as the
\* window; max() - min() of a non-empty window is a finite number >= 0
DeltaHValue(i1, i2) == <<i1, i2>>

\* lines 309-317: the entries of 'delta h' added for a bout of n strides
DeltaHEntries(g, n) ==
    IF n > 1
    THEN [k \in 1..(n - 1) |->
             IF At(g["b valid cycle"], ig + (k - 1))
             THEN DeltaHValue(At(g["IC"], ig + (k - 1)) - bstart,
                              At(g["IC"], ig + (k - 1) + 1) - bstart)
             ELSE nan]
    ELSE <<>>

\* Gait._autocov(x, i1, i2, i3), lines 409-412, held as its arguments
Autocov(i1, i2, i3) == <<i1, i2, i3>>

\* lines 320-335: the regularity values of a bout of n strides, the second IC
\* being lag strides ahead (1: step, 2: stride); gait['IC'] is indexed
\* without ig, and a value is added only if i3 < vert_acc.size
RegularityEntries(g, n, lag) ==
    LET idx == IF n > lag THEN 0..(n - lag - 1) ELSE {}
        I3(k) == 2 * At(g["IC"], k + lag) - At(g["IC"], k) - bstart
        keep == SortedSeq({k \in idx : I3(k) < BoutSize})
    IN  [j \in 1..Len(keep) |->
            Autocov(At(g["IC"], keep[j]) - bstart,
                    At(g["IC"], keep[j] + lag) - bstart,
                    I3(keep[j]))]

\* lines 306-317: the change in height of each stride but the bout's last
DeltaH ==
    /\ spc = "metrics"
    /\ gait' = [gait EXCEPT !["delta h"] = @ \o DeltaHEntries(gait, sib)]
    /\ spc' = "regularity"
    /\ UNCHANGED <<ic, fc, bstart, max_stride_time, loading_factor, i_ic, sib,
                   ibout, serr, dt, ig>>
    /\ UNCHANGED <<segVars, preVars, metVars, othVars>>

\* lines 319-335: step and stride regularity
Regularity ==
    /\ spc = "regularity"
    /\ gait' = [gait EXCEPT
                  !["PARAM:step regularity - V"] =
                      @ \o RegularityEntries(gait, sib, 1),
                  !["PARAM:stride regularity - V"] =
                      @ \o RegularityEntries(gait, sib, 2)]
    /\ spc' = "per_bout"
    /\ UNCHANGED <<ic, fc, bstart, max_stride_time, loading_factor, i_ic, sib,
                   ibout, serr, dt, ig>>
    /\ UNCHANGED <<segVars, preVars, metVars, othVars>>

\* lines 337-343: the per bout columns.  Line 338 extends 'Bout N'; line 339,
\* gait['Bout Start'].extend(time[start+bout[0]] * sib), passes a float to
\* list.extend and raises TypeError, so lines 340-343 (the other columns and
\* ig += sib) are not run.
PerBout ==
    /\ spc = "per_bout"
    /\ serr = ""
    /\ gait' = [gait EXCEPT !["Bout N"] = @ \o [k \in 1..sib |-> ibout + 1]]
    /\ serr' = "TypeError"
    /\ UNCHANGED <<ic, fc, bstart, max_stride_time, loading_factor, i_ic, sib,
                   ibout, spc, dt, ig>>
    /\ UNCHANGED <<segVars, preVars, metVars, othVars>>

StrideNext == StrideIter \/ ValidCycle \/ DeltaH \/ Regularity \/ PerBout

SpecStride == StrideInit /\ [][StrideNext]_vars

-----------------------------------------------------------------------------
(* Claims about the stride builder *)

FcSet == {fc[k] : k \in 1..Len(fc)}

\* FC events strictly after IC index c and less than w/10 ticks after it
FcWithin(c, w) == {f \in FcSet : f > c /\ 10 * (f - c) * dt < w}

\* the acceptance rule of the claim, for an IC at sample index c
Accepted(c) ==
    /\ Cardinality(FcWithin(c, loading_factor * max_stride_time)) = 1
    /\ Cardinality(FcWithin(c, 5 * max_stride_time
                                  + loading_factor * max_stride_time)) >= 2

\* the k-th smallest FC strictly after index c (k = 1, 2)
FcAfter(c, k) ==
    CHOOSE f \in FcSet :
        f > c /\ Cardinality({g \in FcSet : g > c /\ g < f}) = k - 1

\* C8: an IC is accepted iff, among the FC events strictly after it, exactly
\* one lies less than loading_factor*max_stride_time after it and at least two
\* lie less than max_stride_time/2 + loading_factor*max_stride_time after it;
\* an accepted IC is recorded with the first forward FC as 'FC opp foot' and
\* the second as 'FC'; a rejected IC adds nothing; each IC is decided alone.
C8_AcceptRule ==
    spc \in {"ic_loop", "metrics"} =>
        /\ gait["IC"] = SelectSeq(SubSeq(ic, 1, i_ic), Accepted)
        /\ Len(gait["FC"]) = Len(gait["IC"])
        /\ Len(gait["FC opp foot"]) = Len(gait["IC"])
        /\ sib = Len(gait["IC"])
        /\ \A k \in 1..Len(gait["IC"]) :
              /\ gait["FC opp foot"][k] = FcAfter(gait["IC"][k], 1)
              /\ gait["FC"][k] = FcAfter(gait["IC"][k], 2)

\* C8 witness: the loop has ended with an accepted IC, an IC rejected by the
\* loading rule for having two FC in the loading window, and one rejected by
\* the stance rule.
C8_Witness ==
    /\ spc = "ic_loop"
    /\ i_ic = Len(ic)
    /\ Len(gait["IC"]) >= 1
    /\ \E k \in 1..Len(ic) :
          Cardinality(FcWithin(ic[k], loading_factor * max_stride_time)) >= 2
    /\ \E k \in 1..Len(ic) :
          /\ Cardinality(FcWithin(ic[k], loading_factor * max_stride_time)) = 1
          /\ ~Accepted(ic[k])

\* C9: for every accepted stride, the same-foot FC index is strictly greater
\* than the opposite-foot FC index, and both are less than
\* stance_forward_time/dt samples ahead of the stride's IC.
C9_FcOrderAndWindow ==
    spc \in {"ic_loop", "metrics"} =>
        \A k \in 1..Len(gait["IC"]) :
            /\ gait["FC"][k] > gait["FC opp foot"][k]
            /\ 10 * (gait["FC"][k] - gait["IC"][k]) * dt
                  < 5 * max_stride_time + loading_factor * max_stride_time
            /\ 10 * (gait["FC opp foot"][k] - gait["IC"][k]) * dt
                  < 5 * max_stride_time + loading_factor * max_stride_time

\* C9 witness: two strides have been accepted.
C9_Witness == spc = "metrics" /\ Len(gait["IC"]) >= 2

\* C10 (as claimed): a bout with n accepted strides gets exactly n valid-cycle
\* flags: flag k (k < n-2) is true iff the IC of stride k+2 is less than
\* max_stride_time after the IC of stride k, and the last two flags are false.
C10_Claim ==
    spc = "metrics" =>
        /\ Len(gait["b valid cycle"]) = sib
        /\ \A k \in 0..(sib - 1) :
              At(gait["b valid cycle"], k) =
                 (/\ k < sib - 2
                  /\ (At(gait["IC"], k + 2) - At(gait["IC"], k)) * dt
                        < max_stride_time)

\* the lists that hold one entry per stride record and are filled per bout
StrideLists == {"IC", "FC", "FC opp foot", "b valid cycle", "delta h"}

\* the lists that hold one entry per stride record and are filled per bout or
\* per day
BoutLists == {"Bout N", "Bout Start", "Bout Duration", "Bout Steps", "Day N"}

\* C11 (as claimed): all sequences of the table have the same length, the
\* number of stride records accepted: the per-stride lists once the bout's
\* strides and their change in height are recorded, and, no exception being
\* raised, the per-bout columns once they are written.
C11_Claim ==
    /\ spc = "per_bout" =>
          \A k \in StrideLists : Len(gait[k]) = Len(gait["IC"])
    /\ serr = ""
    /\ (spc = "per_bout" /\ gait["Bout N"] # <<>>) =>
          \A k \in BoutLists : Len(gait[k]) = Len(gait["IC"])

\* C12 (as claimed): every stride record has a 'delta h' entry, which is nan
\* exactly when that stride's valid-cycle flag is false.
C12_Claim ==
    spc \in {"regularity", "per_bout"} =>
        /\ Len(gait["delta h"]) = Len(gait["IC"])
        /\ \A k \in 1..Len(gait["IC"]) :
              (gait["delta h"][k] = nan) <=> ~gait["b valid cycle"][k]

\* C19 (as claimed): ig advances by exactly the number of strides accepted in
\* the bout, and then equals the length of every accumulator indexed with it:
\* where ig += sib is about to run, each accumulator holds ig + sib entries.
C19_Claim ==
    spc = "per_bout" =>
        \A k \in {"IC", "FC", "FC opp foot", "b valid cycle"} :
            Len(gait[k]) = ig + sib

\* line 383: 'PARAM:stance time' = (FC - IC) * dt, over the stride records
StanceTime(g) ==
    [k \in 1..Len(g["IC"]) |-> (g["FC"][k] - g["IC"][k]) * dt]

\* line 384: 'PARAM:initial double support' = (FC opp foot - IC) * dt
InitialDoubleSupport_SameFoot(g) ==
    [k \in 1..Len(g["IC"]) |-> (g["FC"][k] - g["IC"][k]) * dt]
InitialDoubleSupport(g) ==
    [k \in 1..Len(g["IC"]) |-> (g["FC opp foot"][k] - g["IC"][k]) * dt]

\* C20: for every stride record, the initial double support
\* (FC opp foot - IC)*dt is positive and less than
\* loading_factor*max_stride_time, the same-foot FC is not inside that loading
\* window, and the stance time (FC - IC)*dt is less than
\* max_stride_time/2 + loading_factor*max_stride_time.
C20_LoadingAndStanceBounds ==
    \A k \in 1..Len(gait["IC"]) :
        /\ InitialDoubleSupport(gait)[k] > 0
        /\ 10 * InitialDoubleSupport(gait)[k] < LoadingForwardTime
        /\ ~(10 * StanceTime(gait)[k] < LoadingForwardTime)
        /\ 10 * StanceTime(gait)[k] < StanceForwardTime

\* C20 witness: the bout's strides are recorded, two of them, one with an
\* initial double support of more than one sample.
C20_Witness ==
    /\ spc = "metrics"
    /\ Len(gait["IC"]) >= 2
    /\ \E k \in 1..Len(gait["IC"]) : InitialDoubleSupport(gait)[k] > dt


\* C24 (as claimed): appending the bookkeeping entries of a bout succeeds, and
\* once 'Bout N' has its entries, ibout + 1 for each of the bout's strides,
\* 'Bout Start' and 'Bout Duration' have as many.
C24_Claim ==
    /\ serr = ""
    /\ gait["Bout N"] # <<>> =>
          /\ gait["Bout N"] = [k \in 1..sib |-> ibout + 1]
          /\ Len(gait["Bout Start"]) = sib
          /\ Len(gait["Bout Duration"]) = sib

\* the number of the bout's strides whose valid-cycle flag is true
ValidInBout ==
    Cardinality({k \in 0..(sib - 1) : At(gait["b valid cycle"], ig + k)})

\* C25 (as claimed): once the per-bout columns of a bout are written, its
\* strides carry in 'Bout Steps' the number of the bout's own strides whose
\* valid-cycle flag is true.
C25_Claim ==
    (spc = "per_bout" /\ gait["Bout N"] # <<>>) =>
        gait["Bout Steps"] = [k \in 1..sib |-> ValidInBout]

\* the accumulators as an earlier bout of one accepted stride (IC 0, FC opp
\* foot 1, FC 2) leaves them once its per-bout columns are written: one
\* False flag (line 301), no 'delta h' and no regularity value (range(0))
PriorBout ==
    [GaitAlloc EXCEPT
        !["IC"] = <<0>>,
        !["FC opp foot"] = <<1>>,
        !["FC"] = <<2>>,
        !["b valid cycle"] = <<FALSE>>,
        !["Bout N"] = <<1>>,
        !["Bout Start"] = <<0>>,
        !["Bout Duration"] = <<2>>,
        !["Bout Steps"] = <<0>>]

\* first sample of a bout that follows PriorBout
LaterBStartSet == {3, 5}

\* the stride builder entered for the second bout of a day: ibout = 1 and
\* ig = 1 (line 343)
LaterBoutInit ==
    /\ \E p \in StrideParams, b \in LaterBStartSet,
          pic \in PeakLists(MaxIc), pfc \in PeakLists(MaxFc) :
          /\ max_stride_time = p.mst
          /\ loading_factor = p.lf
          /\ dt = p.dt
          /\ bstart = b
          /\ ic = AddScalar(pic, b)
          /\ fc = AddScalar(pfc, b)
    /\ i_ic = 0
    /\ sib = 0
    /\ ibout = 1
    /\ serr = ""
    /\ ig = 1
    /\ gait = PriorBout
    /\ spc = "ic_loop"
    /\ SegIdle
    /\ PredictIdle
    /\ MetricsIdle
    /\ OtherIdle

SpecLaterBout == LaterBoutInit /\ [][StrideNext]_vars

\* the regularity values of the claim for the current bout: windows of the
\* bout's own ICs gait['IC'][ig + k], relative to the bout's start
OwnRegularity(lag) ==
    LET own(k) == At(gait["IC"], ig + k) - bstart
        idx == IF sib > lag THEN 0..(sib - lag - 1) ELSE {}
        keep == SortedSeq({k \in idx : 2 * own(k + lag) - own(k) < BoutSize})
    IN  [j \in 1..Len(keep) |->
            Autocov(own(keep[j]), own(keep[j] + lag),
                    2 * own(keep[j] + lag) - own(keep[j]))]

\* C26 (as claimed): for a bout after the first, the regularity windows are
\* built from the bout's own accepted ICs relative to the bout start, i1 and
\* i2 consecutive (step) or two apart (stride), i3 = 2*i2 - i1, with
\* 0 <= i1 < i2 < i3 and i3 within the bout's signal.
C26_Claim ==
    spc = "per_bout" =>
        /\ gait["PARAM:step regularity - V"] = OwnRegularity(1)
        /\ gait["PARAM:stride regularity - V"] = OwnRegularity(2)
        /\ \A key \in {"PARAM:step regularity - V",
                       "PARAM:stride regularity - V"} :
              \A j \in 1..Len(gait[key]) :
                  /\ 0 <= gait[key][j][1]
                  /\ gait[key][j][1] < gait[key][j][2]
                  /\ gait[key][j][2] < gait[key][j][3]
                  /\ gait[key][j][3] < BoutSize

-----------------------------------------------------------------------------
(* Gait._predict: control flow.  time and accel are well formed, the       *)
(* classifier's labels gait_class are an input.                            *)

HeightSet == {None, Some(170)}

\* the day windows passed in kwargs (None: no such keyword), for n samples
DaysKwargs(n) ==
    {None, Some(<<>>), Some(<< <<0, n>> >>)}
        \cup {Some(<< <<0, k>>, <<k, n>> >>) : k \in 1..(n - 1)}

PredictInit ==
    /\ gait_class \in SmallLabels
    /\ height \in HeightSet
    /\ leg_length_flag \in BOOLEAN
    /\ leg_length = None
    /\ dt \in DtSet
    /\ days \in DaysKwargs(Len(gait_class))
    /\ iday = 0
    /\ warned = FALSE
    /\ ig = 0
    /\ gait = <<>>
    /\ ppc = "height"
    /\ perr = ""
    /\ SegIdle
    /\ StrideIdle
    /\ MetricsIdle
    /\ OtherIdle

\* line 161: 'height' is None tests the string literal 'height', not the
\* argument, and is False whatever the argument is
HeightIsNone == FALSE

\* lines 161-168.  The else branch always runs; in it height_factor (0.53)
\* * None raises TypeError.  leg_length is held in 1/100 of height's unit.
CheckHeight ==
    /\ ppc = "height"
    /\ perr = ""
    /\ IF HeightIsNone
       THEN /\ warned' = TRUE
            /\ ppc' = "setup"
            /\ UNCHANGED <<leg_length, perr>>
       ELSE /\ warned' = warned
            /\ IF ~leg_length_flag
               THEN IF height = None
                    THEN /\ perr' = "TypeError"
                         /\ UNCHANGED <<leg_length, ppc>>
                    ELSE /\ leg_length' = Some(53 * ValueOf(height))
                         /\ ppc' = "setup"
                         /\ perr' = perr
               ELSE /\ leg_length' = IF height = None THEN None
                                    ELSE Some(100 * ValueOf(height))
                    /\ ppc' = "setup"
                    /\ perr' = perr
    /\ UNCHANGED <<gait_class, height, leg_length_flag, days, iday, dt, ig, gait>>
    /\ UNCHANGED <<segVars, strVars, metVars, othVars>>

\* lines 170-206: dt, the day windows, the classification, the table
Setup ==
    /\ ppc = "setup"
    /\ perr = ""
    /\ days' = IF days = None THEN << <<0, Len(gait_class)>> >>
               ELSE ValueOf(days)
    /\ gait' = GaitAlloc
    /\ ig' = 0
    /\ iday' = 0
    /\ ppc' = "days"
    /\ UNCHANGED <<gait_class, height, leg_length_flag, leg_length, warned,
                   perr, dt>>
    /\ UNCHANGED <<segVars, strVars, metVars, othVars>>

\* lines 208-213: the day loop.  self._get_gait_bouts(gait_class[start:stop])
\* omits the required argument dt of _get_gait_bouts(self, classification,
\* dt): the call raises TypeError before the function's body runs.
DayLoop ==
    /\ ppc = "days"
    /\ perr = ""
    /\ IF iday < Len(days)
       THEN /\ perr' = "TypeError"
            /\ ppc' = ppc
       ELSE /\ perr' = perr
            /\ ppc' = "finalize"
    /\ UNCHANGED <<gait_class, height, leg_length_flag, leg_length, days, iday,
                   warned, dt, ig, gait>>
    /\ UNCHANGED <<segVars, strVars, metVars, othVars>>

\* the keys of the table that _predict returns
ResultKeys ==
    GaitLists \cup ParamKeys \cup AsymKeys
        \cup {"PARAM:autocorrelation symmetry - V"}

\* lines 348-407 for a table no stride was added to (the day loop is only
\* left without an exception when there is no day): every list becomes an
\* empty array, every parameter a full(0, nan), the loops over unique days
\* have nothing to iterate, and the table is returned.
Finalize ==
    /\ ppc = "finalize"
    /\ perr = ""
    /\ \A k \in GaitLists : gait[k] = <<>>
    /\ gait' = [k \in ResultKeys |-> <<>>]
    /\ ppc' = "returned"
    /\ UNCHANGED <<gait_class, height, leg_length_flag, leg_length, days, iday,
                   warned, perr, dt, ig>>
    /\ UNCHANGED <<segVars, strVars, metVars, othVars>>

PredictNext == CheckHeight \/ Setup \/ DayLoop \/ Finalize

SpecPredict == PredictInit /\ [][PredictNext]_vars

-----------------------------------------------------------------------------
(* Claims about Gait._predict *)

\* _predict has ended: it returned the table, or it raised perr
PredictEnded == ppc = "returned" \/ perr # ""

\* C6 (as claimed): for labels that are all false (a height being supplied),
\* _predict returns a table in which every expected key is present with
\* length zero.
C6_Claim ==
    (/\ PredictEnded
     /\ height # None
     /\ \A k \in 1..Len(gait_class) : ~gait_class[k])
        => /\ ppc = "returned"
           /\ DOMAIN gait = ResultKeys
           /\ \A k \in ResultKeys : Len(gait[k]) = 0

\* C7 (as claimed): the only exception _predict raises in its day/bout loop
\* or after it is the segmenter's integrity error, a ValueError.
C7_Claim ==
    (perr # "" /\ ppc \in {"days", "finalize"}) => perr = "ValueError"

\* C17 (as claimed): when height is None, _predict does not raise at the
\* height check, whatever the leg_length flag is; it emits a warning and
\* continues.
C17_Claim ==
    height = None =>
        /\ ~(ppc = "height" /\ perr # "")
        /\ ppc # "height" => warned

-----------------------------------------------------------------------------
(* Gait._predict, lines 348-404: the metrics computed from the table.      *)
(* A value of a float array is Some(x), x in ticks, or nan.  The runs are   *)
(* those with height None, which skip lines 359-361, 378-380, 387-388.     *)

MaxRows == 4

\* (Day N, Bout N) of a row: iday + 1 and ibout + 1, lines 338 and 346
DayBoutSet == {<<1, 1>>, <<1, 2>>, <<2, 1>>}

\* FC opp foot - IC and FC - IC of a row, in samples
RowOffsets == {[opp |-> 1, fc |-> 2], [opp |-> 2, fc |-> 4]}

PairLess(a, b) == a[1] < b[1] \/ (a[1] = b[1] /\ a[2] < b[2])

\* the lists of the table as the day loop leaves them for Len(ics) stride
\* records with the ICs ics, the offsets off and the (day, bout) pairs grp
StrideTable(ics, off, grp) ==
    LET n == Len(ics)
    IN  [GaitAlloc EXCEPT
            !["IC"] = ics,
            !["FC opp foot"] = [k \in 1..n |-> ics[k] + off[k].opp],
            !["FC"] = [k \in 1..n |-> ics[k] + off[k].fc],
            !["Day N"] = [k \in 1..n |-> grp[k][1]],
            !["Bout N"] = [k \in 1..n |-> grp[k][2]],
            !["Bout Start"] = [k \in 1..n |-> 0],
            !["Bout Duration"] = [k \in 1..n |-> 0],
            !["Bout Steps"] = [k \in 1..n |-> 0],
            !["b valid cycle"] = [k \in 1..n |-> FALSE],
            !["delta h"] = [k \in 1..n |-> nan]]

\* the ICs of n stride records: ascending over the whole table
IcLists(n) ==
    {SortedSeq(S) : S \in {T \in SUBSET (0..MaxRows) : Cardinality(T) = n}}

\* the (day, bout) pairs of n stride records: the rows of a bout adjacent,
\* days and bouts in order
GroupLists(n) ==
    {h \in [1..n -> DayBoutSet] :
        \A k \in 1..(n - 1) : ~PairLess(h[k + 1], h[k])}

\* full(n, nan)
NanFull(n) == [k \in 1..n |-> nan]

\* a - b and a + b of floats
NanSub(a, b) == IF a = nan \/ b = nan THEN nan ELSE Some(a[1] - b[1])
NanAdd(a, b) == IF a = nan \/ b = nan THEN nan ELSE Some(a[1] + b[1])

\* n / x of floats, held as the pair (numerator, denominator)
Ratio(n, x) == IF x = nan THEN nan ELSE <<n, x[1]>>

\* abs(a - b), lines 400-401 and 403-404
AbsDiff_NoAbs(a, b) == NanSub(a, b)
AbsDiff(a, b) ==
    IF a = nan \/ b = nan THEN nan
    ELSE Some(IF a[1] >= b[1] THEN a[1] - b[1] ELSE b[1] - a[1])

RECURSIVE SortedPairs(_)
SortedPairs(S) ==
    IF S = {} THEN <<>>
    ELSE LET m == CHOOSE x \in S : \A y \in S \ {x} : PairLess(x, y)
         IN  <<m>> \o SortedPairs(S \ {m})

\* lines 364-365 and 394-395: the (day, bout) pairs in the order of the loops
\* over unique(gait['Day N']) and unique(gait['Bout N'][...])
Groups(g) ==
    SortedPairs({<<g["Day N"][k], g["Bout N"][k]>> : k \in 1..Len(g["IC"])})

\* lines 366 and 396: the rows mask selects
MaskRows(g, grp) ==
    SortedSeq({k \in 1..Len(g["IC"]) :
                  g["Day N"][k] = grp[1] /\ g["Bout N"][k] = grp[2]})

\* a[mask]: a new array holding the selected rows
Masked(a, rows) == [j \in 1..Len(rows) |-> a[rows[j]]]

\* b[:-m] = vals, for b of Len(vals) + m entries or fewer
WriteHead(b, vals) == vals \o SubSeq(b, Len(vals) + 1, Len(b))

\* the size of a[m:] and of a[:-m]
Clip(n) == IF n > 0 THEN n ELSE 0

\* lines 368-369: (gait['IC'][mask][2:] - gait['IC'][mask][:-2]) * dt
StrideTimeRhs(g, rows) ==
    [k \in 1..Clip(Len(rows) - 2) |->
        Some((g["IC"][rows[k + 2]] - g["IC"][rows[k]]) * dt)]

\* whether numpy broadcasts the shapes (a,) and (b,) together
Broadcasts(a, b) == a = b \/ a = 1 \/ b = 1

\* lines 370-371: gait['FC'][:-2] is not masked, so the right side subtracts
\* arrays of Len(rows)-2 and gait['FC'].size-2 entries (ValueError unless
\* they broadcast); the target then reads the key 'Param:swing time', which
\* the table does not have (KeyError)
SwingTimeError(g, rows) ==
    IF Broadcasts(Clip(Len(rows) - 2), Clip(Len(g["FC"]) - 2))
    THEN "KeyError" ELSE "ValueError"

\* lines 348-356: every list becomes an array, every parameter and asymmetry
\* parameter a full(gait['IC'].size, nan)
MetricsArraysOf(g) ==
    [k \in DOMAIN g |->
        IF k \in ParamKeys \cup AsymKeys THEN NanFull(Len(g["IC"])) ELSE g[k]]

\* lines 383-391: the metrics assigned with [:] to the whole column
MetricsRestOf(g) ==
    LET n == Len(g["IC"])
        ids == [k \in 1..n |-> Some(InitialDoubleSupport(g)[k])]
    IN  [g EXCEPT
           !["PARAM:stance time"] = [k \in 1..n |-> Some(StanceTime(g)[k])],
           !["PARAM:initial double support"] = ids,
           !["PARAM:double support"] =
               [k \in 1..n |->
                   NanAdd(ids[k], g["PARAM:terminal double support"][k])],
           !["PARAM:cadence"] =
               [k \in 1..n |-> Ratio(60, g["PARAM:step time"][k])]]

\* lines 397-399: each basic parameter with its asymmetry column
AsymPairs ==
    {<<"PARAM:stride time", "PARAM:stride time asymmetry">>,
     <<"PARAM:stance time", "PARAM:stance time asymmetry">>,
     <<"PARAM:swing time", "PARAM:swing time asymmetry">>,
     <<"PARAM:step time", "PARAM:step time asymmetry">>,
     <<"PARAM:initial double support",
       "PARAM:initial double support asymmetry">>,
     <<"PARAM:terminal double support",
       "PARAM:terminal double support asymmetry">>,
     <<"PARAM:double support", "PARAM:double support asymmetry">>,
     <<"PARAM:single support", "PARAM:single support asymmetry">>,
     <<"PARAM:step length", "PARAM:step length asymmetry">>,
     <<"PARAM:stride length", "PARAM:stride length asymmetry">>}

\* lines 400-401: abs(gait[p][mask][1:] - gait[p][mask][:-1])
AsymRhs(g, pkey, rows) ==
    [k \in 1..Clip(Len(rows) - 1) |->
        AbsDiff(g[pkey][rows[k + 1]], g[pkey][rows[k]])]

\* lines 320-335 for the groups 1..n of the table g: the regularity values
\* the per-bout loops add, the second IC lag rows ahead.  As in the code the
\* rows are gait['IC'][i] and gait['IC'][i + lag], i counted from the start
\* of the table; each bout starts one sample before its first IC and its
\* signal extends beyond every window, so no value is skipped.
RECURSIVE RegularityRows(_, _, _)
RegularityRows(g, lag, n) ==
    IF n = 0 THEN <<>>
    ELSE LET rows == MaskRows(g, Groups(g)[n])
             b == g["IC"][rows[1]] - 1
         IN  RegularityRows(g, lag, n - 1)
                 \o [j \in 1..Clip(Len(rows) - lag) |->
                        Autocov(g["IC"][j] - b, g["IC"][j + lag] - b,
                                2 * g["IC"][j + lag] - g["IC"][j] - b)]

\* the table with its two regularity lists
WithRegularity(g) ==
    [g EXCEPT
        !["PARAM:step regularity - V"] = RegularityRows(g, 1, Len(Groups(g))),
        !["PARAM:stride regularity - V"] = RegularityRows(g, 2, Len(Groups(g)))]

\* no array gait[key][mask] has been made
ViewNone == [k \in ParamKeys \cup AsymKeys |-> <<>>]

MetricsInit ==
    /\ dt \in DtSet
    /\ \E n \in 0..MaxRows :
          \E ics \in IcLists(n), off \in [1..n -> RowOffsets],
             grp \in GroupLists(n) :
             gait = WithRegularity(StrideTable(ics, off, grp))
    /\ ig = 0
    /\ mpc = "arrays"
    /\ merr = ""
    /\ igrp = 0
    /\ view = ViewNone
    /\ SegIdle
    /\ StrideIdle
    /\ PredictIdle
    /\ OtherIdle

\* lines 348-361
MetricsArrays ==
    /\ mpc = "arrays"
    /\ gait' = MetricsArraysOf(gait)
    /\ mpc' = "groups"
    /\ UNCHANGED <<merr, igrp, view, dt, ig>>
    /\ UNCHANGED <<segVars, strVars, preVars, othVars>>

\* lines 364-380.  In the first group, line 368 writes the stride times into
\* gait['PARAM:stride time'][mask], a copy that boolean indexing makes, and
\* line 370 raises; with no group the loop has nothing to run.
MetricsGroups ==
    /\ mpc = "groups"
    /\ merr = ""
    /\ IF Groups(gait) = <<>>
       THEN /\ mpc' = "rest"
            /\ UNCHANGED <<merr, view>>
       ELSE LET rows == MaskRows(gait, Groups(gait)[1])
            IN  /\ view' = [view EXCEPT !["PARAM:stride time"] =
                               WriteHead(Masked(gait["PARAM:stride time"], rows),
                                         StrideTimeRhs(gait, rows))]
                /\ merr' = SwingTimeError(gait, rows)
                /\ mpc' = mpc
    /\ UNCHANGED <<igrp, dt, ig, gait>>
    /\ UNCHANGED <<segVars, strVars, preVars, othVars>>

\* lines 383-391
MetricsRest ==
    /\ mpc = "rest"
    /\ gait' = MetricsRestOf(gait)
    /\ mpc' = "asym"
    /\ UNCHANGED <<merr, igrp, view, dt, ig>>
    /\ UNCHANGED <<segVars, strVars, preVars, othVars>>

\* lines 394-401: one (day, bout) group of the asymmetry loop.  Each of the
\* ten writes goes into gait[key][mask], a copy; the table keeps its values.
AsymGroup ==
    /\ mpc = "asym"
    /\ igrp < Len(Groups(gait))
    /\ LET rows == MaskRows(gait, Groups(gait)[igrp + 1])
       IN  view' = [k \in DOMAIN view |->
                       IF \E pr \in AsymPairs : pr[2] = k
                       THEN LET pr == CHOOSE q \in AsymPairs : q[2] = k
                            IN  WriteHead(Masked(gait[k], rows),
                                          AsymRhs(gait, pr[1], rows))
                       ELSE view[k]]
    /\ igrp' = igrp + 1
    /\ UNCHANGED <<mpc, merr, dt, ig, gait>>
    /\ UNCHANGED <<segVars, strVars, preVars, othVars>>

\* lines 403-407, after the asymmetry loop: the autocorrelation symmetry, and
\* the table is returned
AsymEnd ==
    /\ mpc = "asym"
    /\ igrp = Len(Groups(gait))
    /\ gait' = [k \in DOMAIN gait \cup {"PARAM:autocorrelation symmetry - V"} |->
                  IF k = "PARAM:autocorrelation symmetry - V"
                  THEN [j \in 1..Len(gait["IC"]) |->
                           AbsDiff(gait["PARAM:step regularity - V"][j],
                                   gait["PARAM:stride regularity - V"][j])]
                  ELSE gait[k]]
    /\ mpc' = "returned"
    /\ UNCHANGED <<merr, igrp, view, dt, ig>>
    /\ UNCHANGED <<segVars, strVars, preVars, othVars>>

MetricsNext == MetricsArrays \/ MetricsGroups \/ MetricsRest \/ AsymEnd

SpecMetrics == MetricsInit /\ [][MetricsNext]_vars

\* the asymmetry loop on its own, entered with the columns that lines 348-391
\* assign to a table of stride records
AsymInit ==
    /\ dt \in DtSet
    /\ \E n \in 0..MaxRows :
          \E ics \in IcLists(n), off \in [1..n -> RowOffsets],
             grp \in GroupLists(n) :
             gait = MetricsRestOf(MetricsArraysOf(StrideTable(ics, off, grp)))
    /\ ig = 0
    /\ mpc = "asym"
    /\ merr = ""
    /\ igrp = 0
    /\ view = ViewNone
    /\ SegIdle
    /\ StrideIdle
    /\ PredictIdle
    /\ OtherIdle

AsymNext == AsymGroup \/ AsymEnd

SpecAsym == AsymInit /\ [][AsymNext]_vars

-----------------------------------------------------------------------------
(* Claims about the metrics *)

\* the metrics code has ended: the table is returned, or merr was raised
MetricsEnded == mpc = "returned" \/ merr # ""

\* a value that is nan or not negative
NonNegative(v) == v = nan \/ v[1] >= 0

\* C13: every value of every asymmetry column of the table is non-negative
\* (nan, the undefined value, aside), and so is every value that lines
\* 400-401 compute for such a column.
C13_AsymNonNegative ==
    \A k \in AsymKeys :
        /\ \A j \in 1..Len(gait[k]) : NonNegative(gait[k][j])
        /\ \A j \in 1..Len(view[k]) : NonNegative(view[k][j])

\* C13 witness: the table is returned after the asymmetry loop computed a
\* value above zero for the last group.
C13_Witness ==
    /\ mpc = "returned"
    /\ \E k \in AsymKeys : \E j \in 1..Len(view[k]) :
          view[k][j] # nan /\ view[k][j][1] > 0

\* C14 (as claimed): in the returned table, for each basic parameter p and
\* each (day, bout) group, the asymmetry of p at the group's k-th row is
\* |p[k+1] - p[k]| over consecutive rows of the group, and nan at the group's
\* last row.
C14_Claim ==
    mpc = "returned" =>
        \A n \in 1..Len(Groups(gait)) : \A pr \in AsymPairs :
            LET rows == MaskRows(gait, Groups(gait)[n])
            IN  \A j \in 1..Len(rows) :
                    gait[pr[2]][rows[j]] =
                        IF j < Len(rows)
                        THEN AbsDiff(gait[pr[1]][rows[j + 1]],
                                     gait[pr[1]][rows[j]])
                        ELSE nan

\* C15 (as claimed): the table is returned, in it cadence is 60 / step time
\* at every row where step time is defined, and step time is defined at every
\* row that is not the last of its (day, bout) group.
C15_Claim ==
    MetricsEnded =>
        /\ mpc = "returned"
        /\ \A n \in 1..Len(Groups(gait)) :
              LET rows == MaskRows(gait, Groups(gait)[n])
              IN  \A j \in 1..Len(rows) :
                      /\ gait["PARAM:step time"][rows[j]] # nan =>
                            gait["PARAM:cadence"][rows[j]] =
                                Ratio(60, gait["PARAM:step time"][rows[j]])
                      /\ j < Len(rows) =>
                            gait["PARAM:step time"][rows[j]] # nan

\* C16 (as claimed): the table is returned, and for every (day, bout) group of
\* n rows its stride time at the k-th row is (IC[k+2] - IC[k])*dt for k < n-2
\* and its step time is (IC[k+1] - IC[k])*dt for k < n-1, over the ICs of the
\* group, the remaining rows being undefined.
C16_Claim ==
    MetricsEnded =>
        /\ mpc = "returned"
        /\ \A n \in 1..Len(Groups(gait)) :
              LET rows == MaskRows(gait, Groups(gait)[n])
              IN  \A j \in 1..Len(rows) :
                      /\ gait["PARAM:stride time"][rows[j]] =
                            IF j + 2 <= Len(rows)
                            THEN Some((gait["IC"][rows[j + 2]]
                                          - gait["IC"][rows[j]]) * dt)
                            ELSE nan
                      /\ gait["PARAM:step time"][rows[j]] =
                            IF j + 1 <= Len(rows)
                            THEN Some((gait["IC"][rows[j + 1]]
                                          - gait["IC"][rows[j]]) * dt)
                            ELSE nan

\* C23 (as claimed): computing the swing time never fails, the table is
\* returned, and for every (day, bout) group of n rows its 'PARAM:swing time'
\* at the k-th row is (IC[k+2] - FC[k])*dt for k < n-2, IC and FC both of the
\* group's rows, and undefined at the group's last two rows.
C23_Claim ==
    MetricsEnded =>
        /\ merr = ""
        /\ \A n \in 1..Len(Groups(gait)) :
              LET rows == MaskRows(gait, Groups(gait)[n])
              IN  \A j \in 1..Len(rows) :
                      gait["PARAM:swing time"][rows[j]] =
                          IF j + 2 <= Len(rows)
                          THEN Some((gait["IC"][rows[j + 2]]
                                        - gait["FC"][rows[j]]) * dt)
                          ELSE nan

\* C27 (as claimed): the two regularity columns of the table hold the values
\* computed in the per-bout loops; they are not replaced afterwards.
C27_Claim ==
    mpc \in {"arrays", "groups", "rest", "asym", "returned"} =>
        /\ gait["PARAM:step regularity - V"] =
              RegularityRows(gait, 1, Len(Groups(gait)))
        /\ gait["PARAM:stride regularity - V"] =
              RegularityRows(gait, 2, Len(Groups(gait)))

-----------------------------------------------------------------------------
(* Gait._predict, line 189: the baseline wavelet scale.  The sampling      *)
(* period is dt = 1/fs, fs a whole number of Hz.                            *)

MaxFs == 128

\* the sampling frequencies of the runs, in Hz
FsSet == 20..MaxFs

\* Python's round() of the fraction n/d, n >= 0, d > 0: to the nearest
\* integer, a tie to the even one
RoundHalfEven(n, d) ==
    LET q == n \div d
        r == n % d
    IN  IF 2 * r < d THEN q
        ELSE IF 2 * r > d THEN q + 1
        ELSE IF q % 2 = 0 THEN q ELSE q + 1

\* line 189: round(0.4 / (2 * 1.25 * 1/dt)) - 1.  The product is evaluated
\* from the left, ((2 * 1.25) * 1) / dt = 2.5 * fs, so the quotient is
\* 0.4 / (2.5 * fs) = 4 / (25 * fs)
ScaleOriginal(f) == RoundHalfEven(4, 25 * f) - 1

ScaleInit ==
    /\ fs \in FsSet
    /\ scale_original = None
    /\ dt = 1
    /\ Sit2StandIdle
    /\ BankIdle
    /\ GaitIdle

\* line 189
ComputeScale ==
    /\ scale_original = None
    /\ scale_original' = Some(ScaleOriginal(fs))
    /\ UNCHANGED <<fs, s2sVars, bnkVars, gaitVars, dt>>

ScaleNext == ComputeScale

SpecScale == ScaleInit /\ [][ScaleNext]_vars

\* C30 (as claimed): for every sampling frequency from 20 Hz to 128 Hz the
\* baseline wavelet scale is a positive integer, at least 1.
C30_Claim == scale_original # None => ValueOf(scale_original) >= 1

-----------------------------------------------------------------------------
(* Sit2Stand: the trim of the power signal before its standard deviation.  *)
(* power_std_trim and dt are held in ticks.                                 *)

MaxTrim == 4
MaxPower == 6

Min2(a, b) == IF a <= b THEN a ELSE b
Max2(a, b) == IF a >= b THEN a ELSE b

\* int(a / b), b > 0: the quotient truncated toward zero
IntDiv(a, b) == IF a >= 0 THEN a \div b ELSE -((-a) \div b)

\* the position a slice bound x denotes in an array of n entries
SliceBound(n, x) == IF x < 0 THEN Max2(n + x, 0) ELSE Min2(x, n)

\* the indices of a[lo:hi] for an array of n entries
SliceIdx(n, lo, hi) ==
    {k \in 0..(n - 1) : SliceBound(n, lo) <= k /\ k < SliceBound(n, hi)}

\* line 150: self.std_trim = min(0, power_std_trim)
StdTrim(t) == Min2(0, t)

\* lines 243-245: power[trim:-trim] if trim != 0 else power
TrimmedPower(n, trim) ==
    IF trim # 0 THEN SliceIdx(n, trim, -trim) ELSE 0..(n - 1)

Sit2StandInit ==
    /\ power_std_trim \in 0..MaxTrim
    /\ std_height \in BOOLEAN
    /\ std_trim = None
    /\ power_len \in 1..MaxPower
    /\ std_window = None
    /\ dt \in DtSet
    /\ tpc = "init"
    /\ ScaleIdle
    /\ BankIdle
    /\ GaitIdle

\* Sit2Stand.__init__, lines 149-150
Sit2StandConstruct ==
    /\ tpc = "init"
    /\ std_trim' = Some(StdTrim(power_std_trim))
    /\ tpc' = "predict"
    /\ UNCHANGED <<power_std_trim, std_height, power_len, std_window>>
    /\ UNCHANGED <<sclVars, bnkVars, gaitVars, dt>>

\* Sit2Stand.predict, lines 241-246: the peak height from the power signal
PeakHeight ==
    /\ tpc = "predict"
    /\ std_window' =
          IF std_height
          THEN Some(TrimmedPower(power_len, IntDiv(ValueOf(std_trim), dt)))
          ELSE std_window
    /\ tpc' = "peaks"
    /\ UNCHANGED <<power_std_trim, std_height, std_trim, power_len>>
    /\ UNCHANGED <<sclVars, bnkVars, gaitVars, dt>>

Sit2StandNext == Sit2StandConstruct \/ PeakHeight

SpecSit2Stand == Sit2StandInit /\ [][Sit2StandNext]_vars

\* C21 (as claimed): with power_std_height true and power_std_trim = t, the
\* standard deviation used as the peak height is computed on the power signal
\* with int(t/dt) samples trimmed off its start and off its end; with t = 0 on
\* the whole signal.
C21_Claim ==
    (tpc = "peaks" /\ std_height) =>
        std_window =
            Some({k \in 0..(power_len - 1) :
                     /\ IntDiv(power_std_trim, dt) <= k
                     /\ k < power_len - IntDiv(power_std_trim, dt)})

-----------------------------------------------------------------------------
(* features.Bank: add.  A Feature is held as the name that __eq__ compares  *)
(* (class, parameters, index).                                              *)

MaxBank == 3
MaxArg == 2

\* instances of Feature subclasses
FeatureSet == {"Mean", "Range"}

\* an object that is no Feature
NonFeature == "object"

\* sequences of at most n items
ItemLists(n) == UNION {[1..k -> FeatureSet \cup {NonFeature}] : k \in 0..n}

\* the arguments of add: a Feature; a list, Sized and iterable any number of
\* times; an iterator, Iterable and consumed by one pass; an object that is
\* neither a Feature nor Sized nor Iterable
AddArgs ==
    {[kind |-> "feature", items |-> <<f>>] : f \in FeatureSet}
        \cup {[kind |-> k, items |-> l] :
                 k \in {"list", "iterator"}, l \in ItemLists(MaxArg)}
        \cup {[kind |-> "object", items |-> <<>>]}

\* isinstance(i, Feature)
IsFeature(i) == i \in FeatureSet

\* Bank.__contains__, lines 108-115
Contains(fl, item) ==
    IsFeature(item) /\ \E k \in 1..Len(fl) : fl[k] = item

\* line 130: all(isinstance(i, Feature) for i in features)
AllFeatures(a) == \A k \in 1..Len(a.items) : IsFeature(a.items[k])

\* what a later pass over features yields once all(...) of line 130 returned
\* True: a list yields its items again, an iterator was run to its end
SecondPass(a) == IF a.kind = "iterator" THEN <<>> ELSE a.items

BankInit ==
    /\ feat_list = <<>>
    /\ arg = <<>>
    /\ warns = 0
    /\ berr = ""
    /\ bpc = "idle"
    /\ dt = 1
    /\ ScaleIdle
    /\ Sit2StandIdle
    /\ GaitIdle

\* a call bank.add(features)
AddCall ==
    /\ bpc = "idle"
    /\ Len(feat_list) < MaxBank
    /\ arg' \in AddArgs
    /\ berr' = ""
    /\ bpc' = "add"
    /\ UNCHANGED <<feat_list, warns>>
    /\ UNCHANGED <<sclVars, s2sVars, gaitVars, dt>>

\* Bank.add, lines 121-139
Add ==
    /\ bpc = "add"
    /\ IF arg.kind = "feature"
       THEN /\ warns' = IF Contains(feat_list, arg.items[1])
                        THEN warns + 1 ELSE warns
            /\ feat_list' = Append(feat_list, arg.items[1])
            /\ berr' = berr
       ELSE IF arg.kind \in {"list", "iterator"}
       THEN IF AllFeatures(arg)
            THEN /\ warns' = IF \E k \in 1..Len(SecondPass(arg)) :
                                   Contains(feat_list, SecondPass(arg)[k])
                             THEN warns + 1 ELSE warns
                 /\ feat_list' = feat_list \o SecondPass(arg)
                 /\ berr' = berr
            ELSE /\ berr' = "NotAFeatureError"
                 /\ UNCHANGED <<feat_list, warns>>
       ELSE /\ berr' = "NotAFeatureError"
            /\ UNCHANGED <<feat_list, warns>>
    /\ bpc' = "idle"
    /\ arg' = arg
    /\ UNCHANGED <<sclVars, s2sVars, gaitVars, dt>>

BankNext == AddCall \/ Add

SpecBank == BankInit /\ [][BankNext]_vars

\* the items of the argument of the call in progress
Supplied == arg.items

\* C22 (as claimed): every call of add either appends every supplied Feature,
\* in order, to the bank, or, the argument not being a Feature and not being
\* made of Features only, raises NotAFeatureError and leaves the bank as it
\* was.
C22_Claim ==
    [][bpc = "add" =>
          IF arg.kind = "feature"
                \/ (arg.kind \in {"list", "iterator"} /\ AllFeatures(arg))
          THEN feat_list' = feat_list \o Supplied /\ berr' = ""
          ELSE feat_list' = feat_list /\ berr' = "NotAFeatureError"]_vars

=============================================================================
